---- MODULE Spec2Model ----
(***************************************************************************)
(* A model of the meta-piqma backend core:                                 *)
(*   - src/prisma_generator.py: PRISMAData (validate, __post_init__,       *)
(*     to_dict, from_dict), PRISMADiagramGenerator, generate_prisma_diagram *)
(*   - src/search_server.py: run_meta_analysis (the effect aggregator of   *)
(*     /api/v1/run-meta-analysis) and run_r_script (/api/v1/meta-analysis) *)
(*                                                                         *)
(* Numbers.  PRISMA counts are Python ints and are modelled as integers.   *)
(* Study means are reals; they are modelled in fixed point, as an integer  *)
(* number of hundredths, and so is combined_effect.  The other reals       *)
(* (i2, q, p-value, variances) are exact rationals <<num, den>>, den > 0.  *)
(* round(x, 2) gives the hundredth nearest to the exact value.  When the    *)
(* exact value lies halfway between two hundredths, the float the program  *)
(* holds lies on one side of it, by the rounding errors of the means       *)
(* (decimal fractions have no exact binary form) and of the sums over the  *)
(* list; which side is a function of the request's list the model does not *)
(* compute: it is drawn per request and kept in ties.                      *)
(***************************************************************************)
EXTENDS Integers, Sequences, FiniteSets, TLC

VARIABLES
    \* ---- prisma_generator.py ----
    pcall,        \* the operation that ran last ("none" before any call)
    data,         \* the integer fields of the dict the caller passed
    reasons_obj,  \* the exclusion_reasons dict OBJECT (shared by reference)
    inst,         \* the PRISMAData instance's integer fields, or NoInstance
    errors,       \* the error list of the last validate()
    exc,          \* the exception that left the constructor ("none" if none)
    handed,       \* to_dict() has handed out a dict to the caller
    generator,    \* a PRISMADiagramGenerator holds the instance
    svg,          \* what generate_svg last rendered, or NoSvg
    dcall,        \* arguments of generate_prisma_diagram: [fmt, path]
    ret,          \* value returned by generate_prisma_diagram
    file,         \* content written to output_path, or NoSvg
    \* ---- search_server.py ----
    endpoint,         \* the endpoint that ran ("none" before any call)
    extraction_data,  \* the request's extractionData
    combined_effect,  \* run_meta_analysis' combined_effect, in hundredths
    metrics,          \* the metrics the handler computed, or NoMetrics
    response,         \* [status, error] of the HTTP response
    ties,             \* the side the floats of this request fell on at each round()
    prev,             \* the previous request and what it computed, or <<>>
    rng,              \* draws taken so far from the process-wide random generator
    render,           \* the renderer call made directly, with its image, or <<>>
    plots,            \* the four images a request turned into URLs, or <<>>
    plot_url,         \* a generate_plot_data_uri call: its text and its result, or <<>>
    search_call       \* a search request: its flags, the providers' outcomes, the response, or <<>>

prismaVars == <<pcall, data, reasons_obj, inst, errors, exc, handed, generator,
                svg, dcall, ret, file>>
aggVars == <<endpoint, extraction_data, combined_effect, metrics, response, ties, prev, rng, render, plots, plot_url, search_call>>
vars == <<pcall, data, reasons_obj, inst, errors, exc, handed, generator,
          svg, dcall, ret, file,
          endpoint, extraction_data, combined_effect, metrics, response, ties, prev, rng, render, plots, plot_url, search_call>>

(***************************************************************************)
(* Bounds of the model.                                                    *)
(***************************************************************************)
MaxCount == 1
MaxStudies == 2
MaxRows == 12
MaxChars == 3
MaxArticles == 2

None == <<>>
NoInstance == <<>>
NoSvg == <<>>
NoMetrics == <<>>

(***************************************************************************)
(* PRISMAData: the twelve int fields in declaration order (the order of    *)
(* self.__dict__), the exclusion_reasons dict being held separately.       *)
(***************************************************************************)
IntFields == <<"identified_databases", "identified_other_methods",
               "duplicates_removed", "other_removed_before_screening",
               "records_screened", "excluded_screening",
               "reports_sought_retrieval", "reports_not_retrieved",
               "reports_assessed_fulltext", "total_excluded",
               "studies_qualitative_synthesis", "studies_meta_analysis">>

RECURSIVE SumValues(_)
\* sum(d.values()) of a dict d (a function from labels to ints)
SumValues(d) ==
    IF DOMAIN d = {} THEN 0
    ELSE LET l == CHOOSE x \in DOMAIN d : TRUE
         IN d[l] + SumValues([k \in (DOMAIN d) \ {l} |-> d[k]])

Err(kind, fld, expected, actual) ==
    [kind |-> kind, field |-> fld, expected |-> expected, actual |-> actual]

(***************************************************************************)
(* PRISMAData.validate, check by check, in the order of the source.  d is  *)
(* the record of int fields, r the exclusion_reasons dict.                 *)
(***************************************************************************)
\* first loop: isinstance(value, int) and value < 0, over self.__dict__;
\* the exclusion_reasons entry is a dict, not an int, and is passed over
NegativeErrors(d) ==
    LET neg == SelectSeq(IntFields, LAMBDA f : d[f] < 0)
    IN [i \in 1..Len(neg) |-> Err("negative", neg[i], 0, d[neg[i]])]

\* second loop: value != int(value) is false of every int, so it adds nothing
IntegralErrors(d) ==
    LET bad == SelectSeq(IntFields, LAMBDA f : d[f] # d[f])
    IN [i \in 1..Len(bad) |-> Err("integral", bad[i], 0, d[bad[i]])]

total_identified(d) == d.identified_databases + d.identified_other_methods

IdentifiedErrors(d) ==
    IF total_identified(d) = 0
    THEN <<Err("total_identified", "", 0, 0)>>
    ELSE <<>>

expected_screened_no_other(d) == total_identified(d) - d.duplicates_removed

expected_screened(d) ==
    total_identified(d) - d.duplicates_removed - d.other_removed_before_screening

ScreenedErrors(d) ==
    IF d.records_screened # expected_screened(d)
    THEN <<Err("records_screened", "records_screened",
               expected_screened(d), d.records_screened)>>
    ELSE <<>>

expected_sought(d) == d.records_screened - d.excluded_screening

SoughtErrors(d) ==
    IF d.reports_sought_retrieval # expected_sought(d)
    THEN <<Err("reports_sought", "reports_sought_retrieval",
               expected_sought(d), d.reports_sought_retrieval)>>
    ELSE <<>>

expected_assessed(d) == d.reports_sought_retrieval - d.reports_not_retrieved

AssessedErrors(d) ==
    IF d.reports_assessed_fulltext # expected_assessed(d)
    THEN <<Err("reports_assessed", "reports_assessed_fulltext",
               expected_assessed(d), d.reports_assessed_fulltext)>>
    ELSE <<>>

\* "if self.exclusion_reasons:" is the truth value of the dict: non-empty
ExclusionErrors(d, r) ==
    IF DOMAIN r # {} /\ d.total_excluded # SumValues(r)
    THEN <<Err("total_excluded", "total_excluded", SumValues(r), d.total_excluded)>>
    ELSE <<>>

expected_included(d) == d.reports_assessed_fulltext - d.total_excluded

QualitativeErrorsGe(d) ==
    IF d.studies_qualitative_synthesis >= expected_included(d)
    THEN <<Err("qualitative", "studies_qualitative_synthesis",
               expected_included(d), d.studies_qualitative_synthesis)>>
    ELSE <<>>

QualitativeErrors(d) ==
    IF d.studies_qualitative_synthesis > expected_included(d)
    THEN <<Err("qualitative", "studies_qualitative_synthesis",
               expected_included(d), d.studies_qualitative_synthesis)>>
    ELSE <<>>

\* validate(): the error list; the returned flag is len(errors) == 0
ValidateStopAtFirst(d, r) ==
    LET all == NegativeErrors(d) \o IntegralErrors(d) \o IdentifiedErrors(d)
               \o ScreenedErrors(d) \o SoughtErrors(d) \o AssessedErrors(d)
               \o ExclusionErrors(d, r) \o QualitativeErrors(d)
    IN IF all = <<>> THEN <<>> ELSE <<Head(all)>>

validate(d, r) ==
    NegativeErrors(d) \o IntegralErrors(d) \o IdentifiedErrors(d)
    \o ScreenedErrors(d) \o SoughtErrors(d) \o AssessedErrors(d)
    \o ExclusionErrors(d, r) \o QualitativeErrors(d)

\* __post_init__: raise ValueError unless validate() found no error
PostInitNoRaise(d, r) ==
    [exc |-> "none", inst |-> <<d>>, errors |-> validate(d, r)]

PostInit(d, r) ==
    IF validate(d, r) = <<>>
    THEN [exc |-> "none", inst |-> <<d>>, errors |-> <<>>]
    ELSE [exc |-> "ValueError", inst |-> NoInstance, errors |-> validate(d, r)]

(***************************************************************************)
(* PRISMADiagramGenerator.generate_svg: the label:value lines of the four  *)
(* boxes, read from the instance at the time of the call.                  *)
(***************************************************************************)
\* the class constants of PRISMADiagramGenerator
BOX_WIDTH == 650
BOX_HEIGHT == 110
SPACING_Y == 160
MARGIN_X == 50
MARGIN_Y == 50

total_height == (MARGIN_Y * 2) + (BOX_HEIGHT * 4) + (SPACING_Y * 3)
total_width == BOX_WIDTH + (MARGIN_X * 2)

\* y_identification, y_screening, y_eligibility, y_inclusion (k = 1..4), the
\* boxes being stacked with no spacing between them
BoxYPacked(k) == MARGIN_Y + (k - 1) * BOX_HEIGHT

\* y_identification, y_screening, y_eligibility, y_inclusion (k = 1..4)
BoxY(k) == MARGIN_Y + (k - 1) * (BOX_HEIGHT + SPACING_Y)

\* _create_box: the rect of a section; the section stands for its title and
\* its color, the content lines are the fields of generate_svg below
create_box(x, y, section) ==
    [section |-> section, x |-> x, y |-> y, width |-> BOX_WIDTH, height |-> BOX_HEIGHT]

\* _create_arrow: the line from (x_center, y_from) to (x_center, y_to) and the
\* three points of the arrowhead
create_arrow(y_from, y_to) ==
    LET x_center == MARGIN_X + (BOX_WIDTH \div 2)
        arrow_size == 10
    IN [x1 |-> x_center, y1 |-> y_from, x2 |-> x_center, y2 |-> y_to,
        points |-> <<<<x_center, y_to>>, <<x_center - arrow_size, y_to - arrow_size>>,
                     <<x_center + arrow_size, y_to - arrow_size>>>>]

Sections == <<"identification", "screening", "eligibility", "inclusion">>

generate_svg(d) ==
    [width |-> total_width, height |-> total_height,
     boxes |-> [k \in 1..4 |-> create_box(MARGIN_X, BoxY(k), Sections[k])],
     arrows |-> [k \in 1..3 |-> create_arrow(BoxY(k) + BOX_HEIGHT, BoxY(k + 1))],
     identification |-> <<d.identified_databases, d.identified_other_methods,
                          total_identified(d)>>,
     screening      |-> <<d.duplicates_removed, d.other_removed_before_screening,
                          d.records_screened, d.excluded_screening>>,
     eligibility    |-> <<d.reports_sought_retrieval, d.reports_not_retrieved,
                          d.reports_assessed_fulltext, d.total_excluded>>,
     inclusion      |-> <<d.studies_qualitative_synthesis, d.studies_meta_analysis>>]

\* the format compared as it was passed
LowerExact(s) == s

\* str.lower() on the formats the model passes
Lower(s) == IF s \in {"SVG", "Svg"} THEN "svg" ELSE s

(***************************************************************************)
(* Inputs.  Every record of int fields is written as a consistent record   *)
(* plus the offsets of its derived fields from their expected values, so   *)
(* the set holds the consistent records and their neighbours.              *)
(***************************************************************************)
Offsets == {-1, 0, 1}
Removed == {0, 1}
EmptyReasons == [l \in {} |-> 0]
ReasonMaps == {EmptyReasons,
               [l \in {"a", "b"} |-> 1],
               [l \in {"a", "b"} |-> IF l = "a" THEN -1 ELSE 3]}

Record(idb, iom, dup, oth, scr, exs, sou, rnr, ass, tex, qua, met) ==
    [identified_databases |-> idb, identified_other_methods |-> iom,
     duplicates_removed |-> dup, other_removed_before_screening |-> oth,
     records_screened |-> scr, excluded_screening |-> exs,
     reports_sought_retrieval |-> sou, reports_not_retrieved |-> rnr,
     reports_assessed_fulltext |-> ass, total_excluded |-> tex,
     studies_qualitative_synthesis |-> qua, studies_meta_analysis |-> met]

Near(idb, iom, dup, oth, exs, rnr, ds, dg, da, r, dt, sl, met) ==
    LET scr == idb + iom - dup - oth + ds
        sou == scr - exs + dg
        ass == sou - rnr + da
        tex == SumValues(r) + dt
    IN Record(idb, iom, dup, oth, scr, exs, sou, rnr, ass, tex,
              ass - tex - sl, met)

\* the example of the module's __main__ and of generate_prisma_diagram's docstring
example_data == Record(1430, 45, 312, 25, 1138, 1044, 94, 4, 90, 53, 37, 29)
example_reasons ==
    [l \in {"no_comparative_data", "inadequate_design", "prevention_not_treatment",
            "poor_methodology", "duplicate_data"} |->
        CASE l = "no_comparative_data" -> 22
          [] l = "inadequate_design" -> 15
          [] l = "prevention_not_treatment" -> 9
          [] l = "poor_methodology" -> 4
          [] OTHER -> 3]

PrismaInputs ==
    { [d |-> Near(idb, iom, dup, oth, exs, rnr, ds, dg, da, r, dt, sl, met), r |-> r] :
        idb \in -1..MaxCount, iom \in 0..MaxCount, dup \in Removed, oth \in Removed,
        exs \in Removed, rnr \in Removed, ds \in Offsets, dg \in Offsets,
        da \in Offsets, r \in ReasonMaps, dt \in {0, 1}, sl \in Offsets,
        met \in {-1, 0} }
    \cup {[d |-> example_data, r |-> example_reasons]}

\* the records generate_prisma_diagram is called with: a part of PrismaInputs
DiagramInputs ==
    { [d |-> Near(idb, 1, dup, 0, exs, 0, ds, 0, da, r, 0, sl, 0), r |-> r] :
        idb \in 0..MaxCount, dup \in Removed, exs \in Removed, ds \in Offsets,
        da \in Offsets, r \in ReasonMaps, sl \in Offsets }
    \cup {[d |-> example_data, r |-> example_reasons]}

Formats == {"svg", "SVG", "Svg", "png"}
\* output_path: None, the empty string, a file name
Paths == {<<>>, <<"">>, <<"prisma_diagram.svg">>}

\* the keys of the dict passed to generate_prisma_diagram: all thirteen, all
\* but a field without default, all but a field with the default 0, or all
\* and one that is no field
KeySets == {"all", "no_records_screened", "no_studies_meta_analysis", "extra"}

(***************************************************************************)
(* Initial state: nothing has been called.                                 *)
(***************************************************************************)
Init ==
    /\ pcall = "none" /\ data = <<>> /\ reasons_obj = EmptyReasons
    /\ inst = NoInstance /\ errors = <<>> /\ exc = "none"
    /\ handed = FALSE /\ generator = FALSE /\ svg = NoSvg
    /\ dcall = <<>> /\ ret = NoSvg /\ file = NoSvg
    /\ endpoint = "none" /\ extraction_data = <<>> /\ combined_effect = <<>>
    /\ metrics = NoMetrics /\ response = [status |-> 0, error |-> "none"]
    /\ ties = [ce |-> FALSE, i2 |-> FALSE, q |-> FALSE, fc |-> FALSE] /\ prev = <<>> /\ rng = 0 /\ render = <<>> /\ plots = <<>>
    /\ plot_url = <<>> /\ search_call = <<>>

(***************************************************************************)
(* prisma_generator.py: the operations.                                    *)
(***************************************************************************)
\* PRISMAData.from_dict(data) = cls(**data): the instance keeps the caller's
\* exclusion_reasons dict object itself, not a copy
Construct(d, r) ==
    /\ pcall = "none"
    /\ pcall' = "construct"
    /\ data' = <<d>>
    /\ reasons_obj' = r
    /\ inst' = PostInit(d, r).inst
    /\ errors' = PostInit(d, r).errors
    /\ exc' = PostInit(d, r).exc
    /\ UNCHANGED <<handed, generator, svg, dcall, ret, file>>
    /\ UNCHANGED aggVars

\* to_dict(): the int fields are copied; "exclusion_reasons" is the
\* instance's own dict object
ToDict ==
    /\ inst # NoInstance /\ ~handed
    /\ pcall' = "to_dict"
    /\ handed' = TRUE
    /\ UNCHANGED <<data, reasons_obj, inst, errors, exc, generator, svg, dcall, ret, file>>
    /\ UNCHANGED aggVars

\* the holder of the handed-out dict stores into its exclusion_reasons
CallerStoresReason(l, v) ==
    /\ handed
    /\ IF l \in DOMAIN reasons_obj THEN reasons_obj[l] # v ELSE TRUE
    /\ pcall' = "store"
    /\ reasons_obj' = [k \in (DOMAIN reasons_obj) \cup {l} |->
                          IF k = l THEN v ELSE reasons_obj[k]]
    /\ UNCHANGED <<data, inst, errors, exc, handed, generator, svg, dcall, ret, file>>
    /\ UNCHANGED aggVars

\* PRISMADiagramGenerator(prisma_data)
MakeGenerator ==
    /\ inst # NoInstance /\ ~generator
    /\ pcall' = "generator"
    /\ generator' = TRUE
    /\ UNCHANGED <<data, reasons_obj, inst, errors, exc, handed, svg, dcall, ret, file>>
    /\ UNCHANGED aggVars

GenerateSvg ==
    /\ generator
    /\ pcall' = "generate_svg"
    /\ svg' = <<generate_svg(inst[1])>>
    /\ UNCHANGED <<data, reasons_obj, inst, errors, exc, handed, generator, dcall, ret, file>>
    /\ UNCHANGED aggVars

\* PRISMAData.from_dict(data) = cls(**data) on a dict with the keys named by
\* keys: a missing field without default and a key that is no field make the
\* call fail with TypeError before __post_init__ runs; a missing field with
\* a default takes the default
from_dict(d, r, keys) ==
    IF keys \in {"no_records_screened", "extra"}
    THEN [exc |-> "TypeError", inst |-> NoInstance, errors |-> <<>>]
    ELSE IF keys = "no_studies_meta_analysis"
    THEN PostInit([d EXCEPT !.studies_meta_analysis = 0], r)
    ELSE PostInit(d, r)

\* generate_prisma_diagram(data, output_format, output_path); d holds the
\* values and keys which of them the dict carries; writable is whether
\* Path.write_text succeeds (save_svg swallows its failure); every exception
\* is caught and answered with None
GeneratePrismaDiagram(d, r, keys, fmt, path, writable) ==
    /\ pcall = "none"
    /\ pcall' = "diagram"
    /\ data' = <<d>>
    /\ reasons_obj' = r
    /\ dcall' = <<[fmt |-> fmt, path |-> path, keys |-> keys, writable |-> writable]>>
    /\ errors' = from_dict(d, r, keys).errors
    /\ exc' = from_dict(d, r, keys).exc
    /\ IF from_dict(d, r, keys).exc # "none"
       THEN ret' = NoSvg /\ file' = NoSvg
       ELSE IF Lower(fmt) = "svg"
            THEN /\ ret' = <<generate_svg(from_dict(d, r, keys).inst[1])>>
                 /\ file' = IF path \notin {<<>>, <<"">>} /\ writable
                            THEN <<generate_svg(from_dict(d, r, keys).inst[1])>>
                            ELSE NoSvg
            ELSE ret' = NoSvg /\ file' = NoSvg
    /\ UNCHANGED <<inst, handed, generator, svg>>
    /\ UNCHANGED aggVars

ConstructCall ==
    /\ pcall = "none"
    /\ \E p \in PrismaInputs : Construct(p.d, p.r)

StoreCall == \E l \in {"a", "c"}, v \in {0, 2} : CallerStoresReason(l, v)

DiagramCall ==
    /\ pcall = "none"
    /\ \E p \in DiagramInputs, fmt \in Formats, path \in Paths, writable \in BOOLEAN :
          \E keys \in (IF p.d = example_data THEN KeySets ELSE {"all"}) :
              GeneratePrismaDiagram(p.d, p.r, keys, fmt, path, writable)

NextPrisma ==
    \/ ConstructCall
    \/ ToDict
    \/ StoreCall
    \/ MakeGenerator
    \/ GenerateSvg
    \/ DiagramCall

SpecPrisma == Init /\ [][NextPrisma]_vars

(***************************************************************************)
(* search_server.py: the effect aggregator.                                *)
(***************************************************************************)
\* rationals <<num, den>> with den > 0
RLess(a, b) == a[1] * b[2] < b[1] * a[2]
RLeq(a, b) == a[1] * b[2] <= b[1] * a[2]
RECURSIVE GCD(_, _)
GCD(a, b) == IF b = 0 THEN a ELSE GCD(b, a % b)
Abs(x) == IF x < 0 THEN -x ELSE x
\* lowest terms
RNorm(a) == LET g == GCD(Abs(a[1]), a[2]) IN <<a[1] \div g, a[2] \div g>>
RAdd(a, b) == RNorm(<<a[1] * b[2] + b[1] * a[2], a[2] * b[2]>>)
RMul(a, b) == RNorm(<<a[1] * b[1], a[2] * b[2]>>)
\* a / b for b > 0
RDiv(a, b) == RNorm(<<a[1] * b[2], a[2] * b[1]>>)
RMin(a, b) == IF RLess(b, a) THEN b ELSE a
RMax(a, b) == IF RLess(a, b) THEN b ELSE a

\* num/den lies halfway between two integers, den > 0
IsTie(num, den) == 2 * (num - (num \div den) * den) = den

\* round() of num/den to an integer, den > 0: the nearest one, and on a tie
\* the upper one when the float lies above the exact value (up), else the lower
Round(num, den, up) ==
    LET f == num \div den
        rem == num - f * den
    IN IF 2 * rem < den THEN f
       ELSE IF 2 * rem > den THEN f + 1
       ELSE IF up THEN f + 1 ELSE f

RECURSIVE SumSeq(_)
SumSeq(q) == IF q = <<>> THEN 0 ELSE Head(q) + SumSeq(Tail(q))

\* an optional field: <<>> when study.get(key) is None, <<v>> otherwise
Truthy(x) == x # <<>> /\ x[1] # 0

\* "study.get('mean_intervention') and study.get('mean_control')"
HasMeans(s) == Truthy(s.mean_intervention) /\ Truthy(s.mean_control)

\* "... and study.get('n_intervention')"
HasWeight(s) == HasMeans(s) /\ Truthy(s.n_intervention)

effect_of(s) == s.mean_intervention[1] - s.mean_control[1]

weighted_effect(ed) ==
    LET w == SelectSeq(ed, HasWeight)
    IN SumSeq([i \in 1..Len(w) |-> effect_of(w[i]) * w[i].n_intervention[1]])

total_weight(ed) ==
    LET w == SelectSeq(ed, HasWeight)
    IN SumSeq([i \in 1..Len(w) |-> w[i].n_intervention[1]])

\* the placeholder 1.5, in hundredths
FallbackEffect == 150

\* round(weighted_effect / total_weight, 2) if total_weight > 0 else 1.5
CombinedEffectZeroFallback(ed, up) ==
    IF total_weight(ed) > 0
    THEN Round(weighted_effect(ed), total_weight(ed), up)
    ELSE 0

CombinedEffect(ed, up) ==
    IF total_weight(ed) > 0
    THEN Round(weighted_effect(ed), total_weight(ed), up)
    ELSE FallbackEffect

\* effects: one per study with both means
Effects(ed) ==
    LET c == SelectSeq(ed, HasMeans)
    IN [i \in 1..Len(c) |-> effect_of(c[i])]

\* mean_effect = sum(effects) / len(effects)
mean_effect(es) == <<SumSeq(es), Len(es)>>

\* variance = sum((e - mean_effect) ** 2 for e in effects) / (len(effects) - 1),
\* each e - mean_effect being (len * e - sum) / len
variance(es) ==
    LET k == Len(es)
        t == SumSeq(es)
    IN RNorm(<<SumSeq([i \in 1..k |-> (k * es[i] - t) * (k * es[i] - t)]),
               k * k * (k - 1)>>)

mean_effect_sq(es) == RMul(mean_effect(es), mean_effect(es))

\* i2, in hundredths of a percent:
\* round(min(100, (variance / (mean_effect ** 2 + variance)) * 100), 2)
\*   if (mean_effect ** 2 + variance) > 0 else 0, and 0 for fewer than 2 effects
ISquaredOverMeanSq(es, up) ==
    IF Len(es) > 1
    THEN IF mean_effect_sq(es)[1] > 0
         THEN LET pct == RMul(<<100, 1>>, RDiv(variance(es), mean_effect_sq(es)))
              IN Round(100 * pct[1], pct[2], up)
         ELSE 0
    ELSE 0

ISquared(es, up) ==
    IF Len(es) > 1
    THEN LET v == variance(es)
             den == RAdd(mean_effect_sq(es), v)
         IN IF den[1] > 0
            THEN LET pct == RMin(<<100, 1>>, RMul(<<100, 1>>, RDiv(v, den)))
                 IN Round(100 * pct[1], pct[2], up)
            ELSE 0
    ELSE 0

\* q = round(i2 / 100, 2) if len(effects) > 0 else 0, in hundredths
QStatisticNoCount(i2h, es, up) ==
    IF Len(es) > 0 THEN Round(i2h, 100, up) ELSE 0

\* q = round(i2 * len(effects) / 100, 2) if len(effects) > 0 else 0, in hundredths
QStatistic(i2h, es, up) ==
    IF Len(es) > 0 THEN Round(i2h * Len(es), 100, up) ELSE 0

\* p_value = round(0.05 if i2 > 75 else 0.001, 4)
PValueHighOnly(i2h) == IF i2h > 7500 THEN <<5, 100>> ELSE <<1, 1000>>

\* p_value = round(0.05 if i2 > 50 else 0.001, 4)
PValue(i2h) == IF i2h > 5000 THEN <<5, 100>> ELSE <<1, 1000>>

\* "Low" if i2 < 25, "Moderate" if i2 < 75, else "High"; i2 a rational
HeterogeneityInclusive(i2) ==
    IF RLeq(i2, <<25, 1>>) THEN "Low"
    ELSE IF RLeq(i2, <<75, 1>>) THEN "Moderate"
    ELSE "High"

Heterogeneity(i2) ==
    IF RLess(i2, <<25, 1>>) THEN "Low"
    ELSE IF RLess(i2, <<75, 1>>) THEN "Moderate"
    ELSE "High"

\* generate_funnel_plot_graph_svg binds the name random by an import in its
\* else branch only, so the name is local to the function and unbound in the
\* branch taken for a non-empty list: a study without both means reads it
FunnelGraphRaises(ed) ==
    ed # <<>> /\ \E i \in 1..Len(ed) : ~HasMeans(ed[i])

(***************************************************************************)
(* search_server.py: the forest and funnel renderers.  An image is the     *)
(* record of what its SVG text declares and draws: width, height, one row  *)
(* per study (legend entry, interval, point) and the combined-effect row;  *)
(* the static texts and the metrics label are left out.  Effects are in    *)
(* hundredths, standard errors in thousandths, x and y in tenths of a      *)
(* pixel.  A title is <<>> for None and <<n>> for a string of n chars; a   *)
(* study without the key "title" has no title field.                       *)
(***************************************************************************)
colors == <<"#2196F3", "#4CAF50", "#FF9800", "#9C27B0", "#F44336",
            "#00BCD4", "#FFEB3B", "#795548", "#E91E63", "#009688">>

\* colors[(i - 1) % len(colors)], i counting from 1
ColorOfShifted(i) == colors[(i % Len(colors)) + 1]

ColorOf(i) == colors[((i - 1) % Len(colors)) + 1]

\* the synthetic studies of the branch for an empty list
SyntheticCount == 10

\* study.get('title', f'Study {i}'), cut to limit chars when longer; None has
\* no len()
TitleIsNone(s) == "title" \in DOMAIN s /\ s.title = <<>>
NameOf(i, s, limit) ==
    IF "title" \notin DOMAIN s THEN [study |-> i, len |-> 0]
    ELSE [study |-> 0, len |-> IF s.title[1] > limit THEN limit ELSE s.title[1]]
DefaultNameFromZero(i) == [study |-> i - 1, len |-> 0]

DefaultName(i) == [study |-> i, len |-> 0]

\* what random.uniform gave a renderer: the effect of the odd and of the even
\* synthetic studies, the two interval offsets, the standard error
EffectDraws == {50, 250}
OffsetDraws == {20, 50}
SeDraws == {50, 300}
RenderDraws == [e1 : EffectDraws, e2 : EffectDraws, lo : OffsetDraws,
                hi : OffsetDraws, se : SeDraws]
NoDraw == [e1 |-> 50, e2 |-> 50, lo |-> 20, hi |-> 20, se |-> 50]
DrawnEffect(i, rnd) == IF i % 2 = 1 THEN rnd.e1 ELSE rnd.e2

Raised(e) == [raised |-> e]

\* box_height = len(studies) * 35 + 60, height = box_height + 20
LegendHeightPaged(count) == (count % 10) * 35 + 60 + 20

LegendHeight(count) == count * 35 + 60 + 20

\* generate_forest_plot_legend_svg / generate_funnel_plot_legend_svg: one
\* entry per study
LegendImage(ed, limit, withCombined) ==
    IF ed # <<>>
    THEN IF \E i \in 1..Len(ed) : TitleIsNone(ed[i])
         THEN Raised("TypeError")
         ELSE [raised |-> "none", width |-> 300, height |-> LegendHeight(Len(ed)),
               rows |-> [i \in 1..Len(ed) |->
                           [name |-> NameOf(i, ed[i], limit), color |-> ColorOf(i)]],
               combined |-> withCombined]
    ELSE [raised |-> "none", width |-> 300, height |-> LegendHeight(SyntheticCount),
          rows |-> [i \in 1..SyntheticCount |->
                      [name |-> DefaultName(i), color |-> ColorOf(i)]],
          combined |-> withCombined]

generate_forest_plot_legend_svg(ed) == LegendImage(ed, 40, TRUE)
generate_funnel_plot_legend_svg(ed) == LegendImage(ed, 35, FALSE)

\* the forest row of study i: effect and interval from the means (se = 0.5),
\* or from the position when a mean is missing or 0
ForestEffect(i, s) == IF HasMeans(s) THEN effect_of(s) ELSE 100 + 10 * i
ForestRow(i, s) ==
    IF HasMeans(s)
    THEN [effect |-> effect_of(s), ci_lower |-> effect_of(s) - 98,
          ci_upper |-> effect_of(s) + 98, color |-> ColorOf(i)]
    ELSE [effect |-> 100 + 10 * i, ci_lower |-> 100 + 10 * i - 30,
          ci_upper |-> 100 + 10 * i + 30, color |-> ColorOf(i)]

ForestSyntheticRow(i, rnd) ==
    [effect |-> DrawnEffect(i, rnd), ci_lower |-> DrawnEffect(i, rnd) - rnd.lo,
     ci_upper |-> DrawnEffect(i, rnd) + rnd.hi, color |-> ColorOf(i)]

\* x of an effect on the forest scale: reference + (effect - 1.0) * 120
ForestX(reference, effect) == 10 * reference + (effect - 100) * 12

\* combined_effect = round(sum(s['effect'] for s in studies) / len(studies), 2):
\* the argument combined_effect (ce) is overwritten
ForestCombined(rows, ce, up) ==
    Round(SumSeq([i \in 1..Len(rows) |-> rows[i].effect]), Len(rows), up)

\* the labels of the x axis, in hundredths, and where they are put: at
\* graph_start, + graph_width // 6, // 3, // 2, + 2 * graph_width // 3, + graph_width
ForestTicks(graph_start, graph_width) ==
    <<[label |-> 50, x |-> 10 * graph_start],
      [label |-> 100, x |-> 10 * (graph_start + graph_width \div 6)],
      [label |-> 150, x |-> 10 * (graph_start + graph_width \div 3)],
      [label |-> 200, x |-> 10 * (graph_start + graph_width \div 2)],
      [label |-> 250, x |-> 10 * (graph_start + (2 * graph_width) \div 3)],
      [label |-> 300, x |-> 10 * (graph_start + graph_width)]>>

\* the common part of generate_forest_plot_graph_svg and
\* generate_forest_plot_svg: height = 150 + len(studies) * 40 + 100, the
\* reference line at graph_start + graph_width // 2
ForestImage(rows, names, width, graph_start, graph_width, y_start, ce, up) ==
    LET reference == graph_start + graph_width \div 2 IN
    [raised |-> "none", width |-> width, height |-> 150 + Len(rows) * 40 + 100,
     reference_x |-> 10 * reference,
     ticks |-> ForestTicks(graph_start, graph_width),
     rows |-> [i \in 1..Len(rows) |->
                 [name |-> names[i], color |-> rows[i].color,
                  effect |-> rows[i].effect,
                  ci_lower |-> rows[i].ci_lower, ci_upper |-> rows[i].ci_upper,
                  center_x |-> ForestX(reference, rows[i].effect),
                  left_x |-> ForestX(reference, rows[i].ci_lower),
                  right_x |-> ForestX(reference, rows[i].ci_upper),
                  y |-> 10 * y_start + 400 * (i - 1)]],
     combined |-> ForestCombined(rows, ce, up),
     combined_x |-> ForestX(reference, ForestCombined(rows, ce, up))]

ForestRows(ed, rnd) ==
    IF ed # <<>> THEN [i \in 1..Len(ed) |-> ForestRow(i, ed[i])]
    ELSE [i \in 1..SyntheticCount |-> ForestSyntheticRow(i, rnd)]

\* total_width = graph_start + graph_width + margin + 120 = 100 + 900 + 60 + 120,
\* the reference line at graph_start + graph_width // 2 = 550, y_start = 80;
\* no names
generate_forest_plot_graph_svg(ed, ce, rnd, up) ==
    LET rows == ForestRows(ed, rnd)
    IN ForestImage(rows, [i \in 1..Len(rows) |-> <<>>], 1180, 100, 900, 80, ce, up)

\* total_width = 390 + 800 + 100, the reference line at 390 + 400; the names
\* are cut to 50 chars and drawn cut to 45
generate_forest_plot_svg(ed, ce, rnd, up) ==
    IF ed # <<>> /\ \E i \in 1..Len(ed) : TitleIsNone(ed[i])
    THEN Raised("TypeError")
    ELSE LET rows == ForestRows(ed, rnd)
             names == IF ed # <<>> THEN [i \in 1..Len(ed) |-> NameOf(i, ed[i], 45)]
                      ELSE [i \in 1..SyntheticCount |-> DefaultName(i)]
         IN ForestImage(rows, names, 1290, 390, 800, 100, ce, up)

\* the funnel point of study i: se = round(0.1 + (i * 0.05), 3)
FunnelSeBySize(i, s) ==
    IF s.n_intervention = <<>> THEN 100 + 50 * i
    ELSE CASE s.n_intervention[1] = 1 -> 1000
           [] s.n_intervention[1] = 3 -> 577
           [] OTHER -> 100 + 50 * i

FunnelSe(i, s) == 100 + 50 * i

\* y of a standard error: base - (se - 0.05) * scale
FunnelY(base, scale, se) == 10 * base - (se - 50) * (scale \div 100)

\* x of an effect on the funnel scale: reference + (effect - 1.5) * scale
FunnelX(reference, scale, effect) == 10 * reference + (effect - 150) * (scale \div 10)

\* the loop over a non-empty list stops at the first study it cannot handle:
\* a None title has no len() (combined variant only), and a study with a mean
\* missing or 0 reads random, a local name bound only in the else branch
FirstFailure(ed, readsTitle) ==
    LET bad == {i \in 1..Len(ed) : (readsTitle /\ TitleIsNone(ed[i])) \/ ~HasMeans(ed[i])}
    IN IF bad = {} THEN "none"
       ELSE LET i == CHOOSE k \in bad : \A j \in bad : k <= j
            IN IF readsTitle /\ TitleIsNone(ed[i]) THEN "TypeError"
               ELSE "UnboundLocalError"

\* the common part of generate_funnel_plot_graph_svg and generate_funnel_plot_svg
FunnelImage(ed, rnd, readsTitle, width, reference, xscale, base, yscale) ==
    IF ed # <<>>
    THEN IF FirstFailure(ed, readsTitle) # "none"
         THEN Raised(FirstFailure(ed, readsTitle))
         ELSE [raised |-> "none", width |-> width, height |-> 750,
               rows |-> [i \in 1..Len(ed) |->
                           [name |-> IF readsTitle THEN NameOf(i, ed[i], 30) ELSE <<>>,
                            color |-> ColorOf(i),
                            effect |-> effect_of(ed[i]), se |-> FunnelSe(i, ed[i]),
                            x |-> FunnelX(reference, xscale, effect_of(ed[i])),
                            y |-> FunnelY(base, yscale, FunnelSe(i, ed[i]))]]]
    ELSE [raised |-> "none", width |-> width, height |-> 750,
          rows |-> [i \in 1..SyntheticCount |->
                      [name |-> IF readsTitle THEN DefaultName(i) ELSE <<>>,
                       \* the combined variant gives its synthetic studies no
                       \* color: study.get('color', '#2196F3')
                       color |-> IF readsTitle THEN colors[1] ELSE ColorOf(i),
                       effect |-> DrawnEffect(i, rnd), se |-> rnd.se,
                       x |-> FunnelX(reference, xscale, DrawnEffect(i, rnd)),
                       y |-> FunnelY(base, yscale, rnd.se)]]]

\* x = 550 + (effect - 1.5) * 180, y = 620 - (se - 0.05) * 1600
generate_funnel_plot_graph_svg(ed, rnd) ==
    FunnelImage(ed, rnd, FALSE, 1180, 550, 180, 620, 1600)

\* x = 790 + (effect - 1.5) * 140, y = 600 - (se - 0.05) * 1400
generate_funnel_plot_svg(ed, rnd) ==
    FunnelImage(ed, rnd, TRUE, 1290, 790, 140, 600, 1400)

\* the image of renderer fn for the list ed, the passed combined effect ce,
\* the draws rnd and the float side up
RenderOut(fn, ed, ce, rnd, up) ==
    CASE fn = "forest_legend" -> generate_forest_plot_legend_svg(ed)
      [] fn = "forest_graph" -> generate_forest_plot_graph_svg(ed, ce, rnd, up)
      [] fn = "forest" -> generate_forest_plot_svg(ed, ce, rnd, up)
      [] fn = "funnel_legend" -> generate_funnel_plot_legend_svg(ed)
      [] fn = "funnel_graph" -> generate_funnel_plot_graph_svg(ed, rnd)
      [] fn = "funnel" -> generate_funnel_plot_svg(ed, rnd)

\* the values random.uniform may give in the branch for an empty list,
\* rounded: i2 in [0, 100], q in [1, 50], p in [0.001, 0.05]
RandomI2 == {0, 2499, 2500, 5000, 5001, 7499, 7500, 10000}
RandomQ == {100, 5000}
RandomP == {<<1, 1000>>, <<5, 100>>}

Opt(S) == {<<>>} \cup {<<v>> : v \in S}
MeanValues == {0, 1, 2}
SizeValues == {0, 1, 2}
Studies ==
    [n_intervention : Opt(SizeValues), mean_intervention : Opt(MeanValues),
     mean_control : Opt(MeanValues)]

Study(n, mi, mc) ==
    [n_intervention |-> <<n>>, mean_intervention |-> <<mi>>, mean_control |-> <<mc>>]

\* the three-study example: n = 100, 120, 85 and means 5.2/4.8, 5.8/5.1, 5.5/5.0
example_studies == <<Study(100, 520, 480), Study(120, 580, 510), Study(85, 550, 500)>>

RECURSIVE SeqsUpTo(_, _)
SeqsUpTo(S, n) ==
    IF n = 0 THEN {<<>>}
    ELSE LET shorter == SeqsUpTo(S, n - 1)
         IN shorter \cup {Append(q, x) : q \in {q \in shorter : Len(q) = n - 1}, x \in S}

StudyLists == SeqsUpTo(Studies, MaxStudies) \cup {example_studies}

\* random.uniform calls of a request with no studies: i2, q and p_value, three
\* per synthetic study of the forest graph and two per one of the funnel graph
EmptyRequestDrawsNone == 0 * (3 + 3 * 10 + 2 * 10)

EmptyRequestDraws == 3 + 3 * 10 + 2 * 10

\* POST /api/v1/run-meta-analysis.  The titles are strings or absent, so the
\* logging loop and the legends raise nothing; rnd is what random.uniform gave.
RunMetaAnalysis(ed, rnd) ==
    /\ endpoint' = "run_meta_analysis"
    /\ extraction_data' = ed
    /\ ties' = rnd.up
    /\ rng' = rng + (IF ed = <<>> THEN EmptyRequestDraws ELSE 0)
    /\ render' = render
    /\ plot_url' = plot_url /\ search_call' = search_call
    /\ plots' = IF FunnelGraphRaises(ed) THEN <<>>
                ELSE <<[forestLegend |-> generate_forest_plot_legend_svg(ed),
                        forestPlot |-> generate_forest_plot_graph_svg(
                                          ed, IF ed # <<>> THEN CombinedEffect(ed, rnd.up.ce)
                                              ELSE FallbackEffect, rnd.plot, rnd.up.fc),
                        funnelLegend |-> generate_funnel_plot_legend_svg(ed),
                        funnelPlot |-> generate_funnel_plot_graph_svg(ed, rnd.plot)]>>
    /\ combined_effect' = IF ed # <<>> THEN <<CombinedEffect(ed, rnd.up.ce)>>
                          ELSE <<FallbackEffect>>
    /\ metrics' =
         IF ed # <<>>
         THEN LET i2h == ISquared(Effects(ed), rnd.up.i2)
              IN <<[i2 |-> <<i2h, 100>>,
                    q |-> <<QStatistic(i2h, Effects(ed), rnd.up.q), 100>>,
                    pValue |-> PValue(i2h),
                    heterogeneity |-> Heterogeneity(<<i2h, 100>>)]>>
         ELSE <<[i2 |-> <<rnd.i2, 100>>, q |-> <<rnd.q, 100>>, pValue |-> rnd.p,
                 heterogeneity |-> Heterogeneity(<<rnd.i2, 100>>)]>>
    /\ response' = IF FunnelGraphRaises(ed)
                   THEN [status |-> 500, error |-> "UnboundLocalError"]
                   ELSE [status |-> 200, error |-> "none"]
    /\ UNCHANGED prismaVars

\* the sides the floats of a request on ed can fall on: a side other than
\* FALSE only where the exact value is a tie (the rounded value differs)
Ties(ed) ==
    {t \in [ce : BOOLEAN, i2 : BOOLEAN, q : BOOLEAN, fc : BOOLEAN] :
        /\ t.ce => CombinedEffect(ed, TRUE) # CombinedEffect(ed, FALSE)
        /\ t.fc => ForestCombined(ForestRows(ed, NoDraw), 0, TRUE)
                     # ForestCombined(ForestRows(ed, NoDraw), 0, FALSE)
        /\ t.i2 => ISquared(Effects(ed), TRUE) # ISquared(Effects(ed), FALSE)
        /\ t.q => QStatistic(ISquared(Effects(ed), t.i2), Effects(ed), TRUE)
                    # QStatistic(ISquared(Effects(ed), t.i2), Effects(ed), FALSE)}

\* the draws of the two graphs of a request with no studies
PlotDraws == {NoDraw, [e1 |-> 50, e2 |-> 250, lo |-> 20, hi |-> 50, se |-> 300]}

\* what random.uniform and the float arithmetic can give a request on ed
Draws(ed) ==
    IF ed = <<>>
    THEN [i2 : RandomI2, q : RandomQ, p : RandomP, plot : PlotDraws,
          up : {[ce |-> FALSE, i2 |-> FALSE, q |-> FALSE, fc |-> FALSE]}]
    ELSE [i2 : {0}, q : {100}, p : {<<1, 1000>>}, plot : {NoDraw}, up : Ties(ed)]

RunMetaAnalysisCall ==
    /\ endpoint = "none"
    /\ \E ed \in StudyLists : \E rnd \in Draws(ed) : RunMetaAnalysis(ed, rnd)
    /\ prev' = prev

(***************************************************************************)
(* run_r_script and POST /api/v1/meta-analysis.  A row is an ExtractionRow *)
(* [n, mean, sd]; ci_lower and ci_upper (a square root) and the plot URLs  *)
(* are left out of the metrics, nothing being claimed of them.             *)
(***************************************************************************)
total_n(rows) == SumSeq([i \in 1..Len(rows) |-> rows[i].n])

\* weighted_mean = sum(m * n) / total_n
weighted_mean(rows) ==
    <<SumSeq([i \in 1..Len(rows) |-> rows[i].mean * rows[i].n]), total_n(rows)>>

\* variance_between = sum((m - weighted_mean) ** 2 * n) / total_n, each
\* m - weighted_mean being (total_n * m - sum(m * n)) / total_n
variance_between(rows) ==
    LET bigN == total_n(rows)
        bigM == weighted_mean(rows)[1]
    IN RNorm(<<SumSeq([i \in 1..Len(rows) |->
                   (bigN * rows[i].mean - bigM) * (bigN * rows[i].mean - bigM) * rows[i].n]),
               bigN * bigN * bigN>>)

\* variance_within = sum(s ** 2 for s in sds) / len(sds)
variance_within(rows) ==
    RNorm(<<SumSeq([i \in 1..Len(rows) |-> rows[i].sd * rows[i].sd]), Len(rows)>>)

\* (variance_between / (variance_between + variance_within)) * 100
\*   if variance_within > 0 else 0, then max(0, min(100, i_squared))
i_squared(rows) ==
    LET vb == variance_between(rows)
        vw == variance_within(rows)
        den == RAdd(vb, vw)
        raw == IF vw[1] > 0 THEN RMul(<<100, 1>>, RDiv(vb, den)) ELSE <<0, 1>>
    IN RMax(<<0, 1>>, RMin(<<100, 1>>, raw))

\* q_statistic = variance_between * total_n
q_statistic(rows) == RMul(variance_between(rows), <<total_n(rows), 1>>)

\* p_value = 0.05 if i_squared > 50 else 0.95
p_value(i2) == IF RLess(<<50, 1>>, i2) THEN <<5, 100>> ELSE <<95, 100>>

Rows == [n : SizeValues, mean : MeanValues, sd : {0, 1}]
RowLists == SeqsUpTo(Rows, MaxStudies)

\* the endpoint: fewer than 2 rows is HTTP 400; run_r_script divides by
\* total_n, and the ZeroDivisionError it re-raises becomes HTTP 500
MetaAnalysis(rows) ==
    /\ endpoint = "none"
    /\ endpoint' = "meta_analysis"
    /\ extraction_data' = rows
    /\ combined_effect' = <<>>
    /\ UNCHANGED <<ties, prev, rng, render, plots, plot_url, search_call>>
    /\ IF Len(rows) < 2
       THEN /\ metrics' = NoMetrics
            /\ response' = [status |-> 400, error |-> "HTTPException"]
       ELSE IF total_n(rows) = 0
       THEN /\ metrics' = NoMetrics
            /\ response' = [status |-> 500, error |-> "ZeroDivisionError"]
       ELSE /\ metrics' = <<[i2 |-> i_squared(rows), q |-> q_statistic(rows),
                             pValue |-> p_value(i_squared(rows)),
                             heterogeneity |-> Heterogeneity(i_squared(rows))]>>
            /\ response' = [status |-> 200, error |-> "none"]
    /\ UNCHANGED prismaVars

MetaAnalysisCall ==
    /\ endpoint = "none"
    /\ \E rows \in RowLists : MetaAnalysis(rows)

NextAggregator ==
    \/ RunMetaAnalysisCall
    \/ MetaAnalysisCall

SpecAggregator == Init /\ [][NextAggregator]_vars

(***************************************************************************)
(* Two requests to /api/v1/run-meta-analysis, one after the other: the     *)
(* second carries the first one's list again, or that list twice over.     *)
(***************************************************************************)
RepeatStudies ==
    [n_intervention : {<<1>>, <<2>>}, mean_intervention : Opt({1, 2}),
     mean_control : {<<0>>, <<1>>, <<2>>}]

\* a list whose combined effect is a tie: (0.5 * 30 + 0.4 * 10) / 40 = 0.475
tie_studies == <<Study(30, 570, 520), Study(10, 490, 450)>>

RepeatLists == SeqsUpTo(RepeatStudies, MaxStudies) \cup {tie_studies}

FirstRequest ==
    /\ endpoint = "none"
    /\ \E ed \in RepeatLists : \E rnd \in Draws(ed) : RunMetaAnalysis(ed, rnd)
    /\ prev' = prev

\* the floats of a request are a function of its list: the same list again
\* falls on the same sides
SecondRequest ==
    /\ endpoint = "run_meta_analysis" /\ prev = <<>>
    /\ prev' = <<[extraction_data |-> extraction_data,
                  combined_effect |-> combined_effect,
                  metrics |-> metrics, response |-> response, plots |-> plots]>>
    /\ \E ed \in {extraction_data, extraction_data \o extraction_data} :
         \E rnd \in Draws(ed) :
            /\ (ed = extraction_data /\ ed # <<>>) => rnd.up = ties
            /\ RunMetaAnalysis(ed, rnd)

NextRepeat ==
    \/ FirstRequest
    \/ SecondRequest

SpecRepeat == Init /\ [][NextRepeat]_vars

(***************************************************************************)
(* The renderers called directly.  The studies: two complete ones, one     *)
(* without a sample size, one whose mean_control is 0, one without means,  *)
(* one whose title is None; the lists: every list of up to MaxStudies of   *)
(* them and, up to MaxRows, the lists that repeat one of two studies.      *)
(***************************************************************************)
RenderStudy(n, mi, mc) ==
    [n_intervention |-> n, mean_intervention |-> mi, mean_control |-> mc]
Titled(s, t) ==
    [k \in DOMAIN s \cup {"title"} |-> IF k = "title" THEN t ELSE s[k]]

study_a == Titled(RenderStudy(<<1>>, <<150>>, <<100>>), <<12>>)
study_b == Titled(RenderStudy(<<3>>, <<250>>, <<100>>), <<60>>)
study_no_n == RenderStudy(<<>>, <<250>>, <<100>>)
study_zero_mean == RenderStudy(<<1>>, <<100>>, <<0>>)
study_no_means == Titled(RenderStudy(<<1>>, <<>>, <<>>), <<12>>)
study_none_title == Titled(RenderStudy(<<1>>, <<150>>, <<100>>), <<>>)

RenderStudies == {study_a, study_b, study_no_n, study_zero_mean, study_no_means,
                  study_none_title}

RenderLists ==
    SeqsUpTo(RenderStudies, MaxStudies)
    \cup {[i \in 1..n |-> s] : n \in 3..MaxRows, s \in {study_a, study_no_means}}

\* the combined_effect a caller passes: what run_meta_analysis computes for
\* the list, or another value
PassedEffects(ed) ==
    {IF ed # <<>> THEN CombinedEffect(ed, up) ELSE FallbackEffect : up \in BOOLEAN}
    \cup {100}

\* the draws and the float side a call on ed can meet: draws for an empty
\* list only, a side only where the combined row's mean is a tie
CallDraws(ed) == IF ed = <<>> THEN RenderDraws ELSE {NoDraw}
CallSides(ed, rnd) ==
    {up \in BOOLEAN :
        up => ForestCombined(ForestRows(ed, rnd), 0, TRUE)
                # ForestCombined(ForestRows(ed, rnd), 0, FALSE)}

Rendered(fn, ed, ce, rnd, up, out) ==
    /\ render = <<>> /\ endpoint = "none"
    /\ render' = <<[fn |-> fn, ed |-> ed, ce |-> ce, rnd |-> rnd, up |-> up, out |-> out]>>
    /\ rng' = rng + (IF ed # <<>> THEN 0
                     ELSE CASE fn \in {"forest_graph", "forest"} -> 3 * SyntheticCount
                            [] fn \in {"funnel_graph", "funnel"} -> 2 * SyntheticCount
                            [] OTHER -> 0)
    /\ UNCHANGED <<endpoint, extraction_data, combined_effect, metrics, response,
                   ties, prev, plots, plot_url, search_call>>
    /\ UNCHANGED prismaVars

ForestLegendCall ==
    /\ render = <<>>
    /\ \E ed \in RenderLists : \E ce \in PassedEffects(ed) :
           Rendered("forest_legend", ed, ce, NoDraw, FALSE,
                    generate_forest_plot_legend_svg(ed))

ForestGraphCall ==
    /\ render = <<>>
    /\ \E ed \in RenderLists : \E ce \in PassedEffects(ed), rnd \in CallDraws(ed) :
           \E up \in CallSides(ed, rnd) :
               Rendered("forest_graph", ed, ce, rnd, up,
                        generate_forest_plot_graph_svg(ed, ce, rnd, up))

ForestCall ==
    /\ render = <<>>
    /\ \E ed \in RenderLists : \E ce \in PassedEffects(ed), rnd \in CallDraws(ed) :
           \E up \in CallSides(ed, rnd) :
               Rendered("forest", ed, ce, rnd, up, generate_forest_plot_svg(ed, ce, rnd, up))

FunnelLegendCall ==
    /\ render = <<>>
    /\ \E ed \in RenderLists :
           Rendered("funnel_legend", ed, 0, NoDraw, FALSE,
                    generate_funnel_plot_legend_svg(ed))

FunnelGraphCall ==
    /\ render = <<>>
    /\ \E ed \in RenderLists : \E rnd \in CallDraws(ed) :
           Rendered("funnel_graph", ed, 0, rnd, FALSE, generate_funnel_plot_graph_svg(ed, rnd))

FunnelCall ==
    /\ render = <<>>
    /\ \E ed \in RenderLists : \E rnd \in CallDraws(ed) :
           Rendered("funnel", ed, 0, rnd, FALSE, generate_funnel_plot_svg(ed, rnd))

NextRender ==
    \/ ForestLegendCall
    \/ ForestGraphCall
    \/ ForestCall
    \/ FunnelLegendCall
    \/ FunnelGraphCall
    \/ FunnelCall

SpecRender == Init /\ [][NextRender]_vars

(***************************************************************************)
(* generate_plot_data_uri.  A text is a sequence of code points, the bytes *)
(* of its UTF-8 form a sequence of numbers 0..255, and the base64 text a   *)
(* sequence of one-character strings (b64encode gives ASCII bytes, which   *)
(* .decode('utf-8') turns into the same characters).                       *)
(***************************************************************************)
IsSurrogate(cp) == 55296 <= cp /\ cp <= 57343

\* str.encode('utf-8') of one code point, written as one byte per code point
\* below 256
EncodeLatin1(cp) ==
    IF cp < 256 THEN <<cp>>
    ELSE IF cp < 65536
    THEN <<224 + cp \div 4096, 128 + ((cp \div 64) % 64), 128 + (cp % 64)>>
    ELSE <<240 + cp \div 262144, 128 + ((cp \div 4096) % 64),
           128 + ((cp \div 64) % 64), 128 + (cp % 64)>>

\* str.encode('utf-8') of one code point that is no surrogate
EncodeUtf8(cp) ==
    IF cp < 128 THEN <<cp>>
    ELSE IF cp < 2048 THEN <<192 + cp \div 64, 128 + (cp % 64)>>
    ELSE IF cp < 65536
    THEN <<224 + cp \div 4096, 128 + ((cp \div 64) % 64), 128 + (cp % 64)>>
    ELSE <<240 + cp \div 262144, 128 + ((cp \div 4096) % 64),
           128 + ((cp \div 64) % 64), 128 + (cp % 64)>>

RECURSIVE svg_bytes(_)
svg_bytes(svg_content) ==
    IF svg_content = <<>> THEN <<>>
    ELSE EncodeUtf8(Head(svg_content)) \o svg_bytes(Tail(svg_content))

\* the alphabet of base64.b64encode
Base64Alphabet ==
    <<"A", "B", "C", "D", "E", "F", "G", "H", "I", "J", "K", "L", "M", "N", "O", "P",
      "Q", "R", "S", "T", "U", "V", "W", "X", "Y", "Z", "a", "b", "c", "d", "e", "f",
      "g", "h", "i", "j", "k", "l", "m", "n", "o", "p", "q", "r", "s", "t", "u", "v",
      "w", "x", "y", "z", "0", "1", "2", "3", "4", "5", "6", "7", "8", "9", "+", "/">>
Base64Char(v) == Base64Alphabet[v + 1]

\* base64.b64encode: three bytes give four characters, the last group is
\* padded with "="
RECURSIVE b64encode(_)
b64encode(b) ==
    IF Len(b) = 0 THEN <<>>
    ELSE IF Len(b) = 1
    THEN <<Base64Char(b[1] \div 4), Base64Char((b[1] % 4) * 16), "=", "=">>
    ELSE IF Len(b) = 2
    THEN <<Base64Char(b[1] \div 4), Base64Char((b[1] % 4) * 16 + b[2] \div 16),
           Base64Char((b[2] % 16) * 4), "=">>
    ELSE <<Base64Char(b[1] \div 4), Base64Char((b[1] % 4) * 16 + b[2] \div 16),
           Base64Char((b[2] % 16) * 4 + b[3] \div 64), Base64Char(b[3] % 64)>>
         \o b64encode(SubSeq(b, 4, Len(b)))

\* f"data:image/svg+xml;base64,{b64}", or the error of encode('utf-8')
generate_plot_data_uri(svg_content) ==
    IF \E i \in 1..Len(svg_content) : IsSurrogate(svg_content[i])
    THEN [raised |-> "UnicodeEncodeError"]
    ELSE [raised |-> "none", prefix |-> "data:image/svg+xml;base64,",
          b64 |-> b64encode(svg_bytes(svg_content))]

\* the code points of the texts: "<", "n", the superscript two of the
\* metrics label, a three-byte and a four-byte character, a lone surrogate
CodePoints == {60, 110, 178, 8364, 128200, 55296}
SvgTexts == SeqsUpTo(CodePoints, MaxChars)

PlotDataUriCall ==
    /\ plot_url = <<>> /\ endpoint = "none" /\ render = <<>>
    /\ \E svg_content \in SvgTexts :
          plot_url' = <<[svg_content |-> svg_content,
                         uri |-> generate_plot_data_uri(svg_content)]>>
    /\ UNCHANGED <<endpoint, extraction_data, combined_effect, metrics, response,
                   ties, prev, rng, render, plots, search_call>>
    /\ UNCHANGED prismaVars

NextDataUri ==
    \/ PlotDataUriCall

SpecDataUri == Init /\ [][NextDataUri]_vars

(***************************************************************************)
(* The search endpoint: the request names the databases to query, every    *)
(* selected provider is called inside its own try, and the lists are       *)
(* joined into one SearchResponse.                                         *)
(***************************************************************************)

\* the databases, in the order in which their lists are joined
ProviderOrder == <<"pubmed", "semantic", "arxiv", "crossref">>
ProviderNames == {ProviderOrder[i] : i \in 1..Len(ProviderOrder)}

\* an article as a provider builds it: a title and a list of author names,
\* each of them a string or None
FoundArticle(p) == [source |-> p, title |-> <<"T">>, authors |-> <<<<"A">>>>]

\* Semantic Scholar copies the "title" of the paper as it is in the JSON, null
\* included; ArXiv appends the text of every <name> element, None for an empty
\* element; PubMed and Crossref build their strings themselves
ProviderArticles(p) ==
    {FoundArticle(p)}
    \cup (IF p = "semantic" THEN {[FoundArticle(p) EXCEPT !.title = None]} ELSE {})
    \cup (IF p = "arxiv" THEN {[FoundArticle(p) EXCEPT !.authors = <<None>>]} ELSE {})

\* what a call of a provider does: it raises, or it returns a list of articles
ProviderOutcomes(p) ==
    {[raised |-> TRUE, articles |-> <<>>]}
    \cup {[raised |-> FALSE, articles |-> q] : q \in SeqsUpTo(ProviderArticles(p), MaxArticles)}

NotCalled == [raised |-> FALSE, articles |-> <<>>]

\* Article(id: str, title: str, authors: List[str], ...): None is no str
ArticleValidates(a) ==
    /\ a.title # None
    /\ \A i \in 1..Len(a.authors) : a.authors[i] # None

search(strategies, outcomes) ==
    IF ~ \E p \in ProviderNames : strategies[p]
    THEN [status |-> 400, called |-> {}, success |-> FALSE,
          articles |-> <<>>, total_count |-> 0]
    ELSE LET found(p) == IF strategies[p] /\ ~ outcomes[p].raised
                         THEN outcomes[p].articles ELSE <<>>
             pubmed_articles == found("pubmed")
             semantic_articles == found("semantic")
             arxiv_articles == found("arxiv")
             crossref_articles == found("crossref")
             all_articles == pubmed_articles \o semantic_articles
                             \o arxiv_articles \o crossref_articles
             called == {p \in ProviderNames : strategies[p]}
         IN  IF \A i \in 1..Len(all_articles) : ArticleValidates(all_articles[i])
             THEN [status |-> 200, called |-> called, success |-> TRUE,
                   articles |-> all_articles, total_count |-> Len(all_articles)]
             ELSE [status |-> 500, called |-> called, success |-> FALSE,
                   articles |-> <<>>, total_count |-> 0]

SearchCall ==
    /\ search_call = <<>> /\ endpoint = "none" /\ render = <<>> /\ plot_url = <<>>
    /\ \E strategies \in [ProviderNames -> BOOLEAN] :
       \E o1 \in ProviderOutcomes("pubmed"), o2 \in ProviderOutcomes("semantic"),
          o3 \in ProviderOutcomes("arxiv"), o4 \in ProviderOutcomes("crossref") :
          LET drawn == [p \in ProviderNames |->
                           CASE p = "pubmed" -> o1 [] p = "semantic" -> o2
                             [] p = "arxiv" -> o3 [] OTHER -> o4]
              outcomes == [p \in ProviderNames |->
                              IF strategies[p] THEN drawn[p] ELSE NotCalled]
          IN  search_call' = <<[strategies |-> strategies, outcomes |-> outcomes,
                                response |-> search(strategies, outcomes)]>>
    /\ UNCHANGED <<endpoint, extraction_data, combined_effect, metrics, response,
                   ties, prev, rng, render, plots, plot_url>>
    /\ UNCHANGED prismaVars

NextSearch ==
    \/ SearchCall

SpecSearch == Init /\ [][NextSearch]_vars

(***************************************************************************)
(* The PRISMA invariants as the specification states them, written apart   *)
(* from validate.                                                          *)
(***************************************************************************)
IntFieldSet == {IntFields[i] : i \in 1..Len(IntFields)}
NegativeFields(d) == {f \in IntFieldSet : d[f] < 0}
ScreenedHolds(d) ==
    d.records_screened = d.identified_databases + d.identified_other_methods
                         - d.duplicates_removed - d.other_removed_before_screening
SoughtHolds(d) == d.reports_sought_retrieval = d.records_screened - d.excluded_screening
AssessedHolds(d) ==
    d.reports_assessed_fulltext = d.reports_sought_retrieval - d.reports_not_retrieved
QualitativeHolds(d) ==
    d.studies_qualitative_synthesis <= d.reports_assessed_fulltext - d.total_excluded
\* the exclusion-sum equation is a check of validate only for a non-empty mapping
ExclusionCheckHolds(d, r) == DOMAIN r = {} \/ d.total_excluded = SumValues(r)

\* the record of claim C1: counts >= 0, identified total > 0, every equation
Consistent(d, r) ==
    /\ NegativeFields(d) = {}
    /\ d.identified_databases + d.identified_other_methods > 0
    /\ ScreenedHolds(d) /\ SoughtHolds(d) /\ AssessedHolds(d)
    /\ d.total_excluded = SumValues(r)
    /\ QualitativeHolds(d)

\* no check of validate is violated
ChecksHold(d, r) ==
    /\ NegativeFields(d) = {}
    /\ d.identified_databases + d.identified_other_methods # 0
    /\ ScreenedHolds(d) /\ SoughtHolds(d) /\ AssessedHolds(d)
    /\ ExclusionCheckHolds(d, r)
    /\ QualitativeHolds(d)

ErrorsOfKind(kind) == {i \in 1..Len(errors) : errors[i].kind = kind}
One(b) == IF b THEN 1 ELSE 0

\* C1: every record with all counts >= 0, identified total > 0, the three
\* equations, total_excluded = sum of the reasons and qualitative <= assessed -
\* total_excluded (equality included) validates to (True, []) and constructs.
C1_ConsistentAccepted ==
    (pcall = "construct" /\ Consistent(data[1], reasons_obj))
        => (errors = <<>> /\ exc = "none" /\ inst = data)

\* C1 witness: the 1430/45/312/25/1138/1044/94/4/90/53/37 example, whose
\* qualitative count equals assessed - excluded, has been constructed.
C1_Witness ==
    /\ pcall = "construct" /\ data = <<example_data>> /\ reasons_obj = example_reasons
    /\ example_data.studies_qualitative_synthesis
         = example_data.reports_assessed_fulltext - example_data.total_excluded
    /\ errors = <<>> /\ inst = data

\* C2: validate does not short-circuit: its list holds exactly one error for
\* each violated check (each negative int field, zero identified total, the
\* screened, sought and assessed equations, the exclusion sum, the qualitative
\* bound), none for a check that holds, and the flag (construction succeeding)
\* is true exactly when the list is empty.
C2_AllViolationsReported ==
    pcall = "construct" =>
      LET d == data[1]
          r == reasons_obj
      IN /\ \A f \in IntFieldSet :
               Cardinality({i \in ErrorsOfKind("negative") : errors[i].field = f})
                 = One(d[f] < 0)
         /\ Cardinality(ErrorsOfKind("total_identified"))
               = One(d.identified_databases + d.identified_other_methods = 0)
         /\ Cardinality(ErrorsOfKind("records_screened")) = One(~ScreenedHolds(d))
         /\ Cardinality(ErrorsOfKind("reports_sought")) = One(~SoughtHolds(d))
         /\ Cardinality(ErrorsOfKind("reports_assessed")) = One(~AssessedHolds(d))
         /\ Cardinality(ErrorsOfKind("total_excluded")) = One(~ExclusionCheckHolds(d, r))
         /\ Cardinality(ErrorsOfKind("qualitative")) = One(~QualitativeHolds(d))
         /\ \A i \in 1..Len(errors) :
               errors[i].kind \in {"negative", "total_identified", "records_screened",
                                   "reports_sought", "reports_assessed",
                                   "total_excluded", "qualitative"}
         /\ (exc = "none") <=> (errors = <<>>)

\* C2 witness: one record violates all seven checks and all are reported.
C2_Witness ==
    /\ pcall = "construct"
    /\ \A k \in {"negative", "total_identified", "records_screened", "reports_sought",
                  "reports_assessed", "total_excluded", "qualitative"} :
          ErrorsOfKind(k) # {}

(***************************************************************************)
(* C3: one field of an otherwise consistent record changed by 1.           *)
(***************************************************************************)
EquationFields == {"records_screened", "reports_sought_retrieval",
                   "reports_assessed_fulltext"}

\* d is a consistent record but for field f, which is off by one
OffByOne(d, r, f) ==
    \E delta \in {-1, 1} : Consistent([d EXCEPT ![f] = @ - delta], r)

\* the error the claim expects for the equation of f: Expected from the
\* arithmetic on the supplied fields, Actual the supplied value
EquationError(d, f) ==
    CASE f = "records_screened" ->
           Err("records_screened", f,
               d.identified_databases + d.identified_other_methods
               - d.duplicates_removed - d.other_removed_before_screening,
               d.records_screened)
      [] f = "reports_sought_retrieval" ->
           Err("reports_sought", f, d.records_screened - d.excluded_screening,
               d.reports_sought_retrieval)
      [] OTHER ->
           Err("reports_assessed", f,
               d.reports_sought_retrieval - d.reports_not_retrieved,
               d.reports_assessed_fulltext)

\* the errors of the other checks the changed field f enters
FollowOnErrors(d, f) ==
    CASE f = "records_screened" -> <<EquationError(d, "reports_sought_retrieval")>>
      [] f = "reports_sought_retrieval" ->
           <<EquationError(d, "reports_assessed_fulltext")>>
      [] OTHER ->
           IF QualitativeHolds(d) THEN <<>>
           ELSE <<Err("qualitative", "studies_qualitative_synthesis",
                      d.reports_assessed_fulltext - d.total_excluded,
                      d.studies_qualitative_synthesis)>>

C4_FailFastConstruction ==
    /\ (pcall = "construct" /\ ~ChecksHold(data[1], reasons_obj))
          => (exc = "ValueError" /\ inst = NoInstance /\ errors # <<>>)
    /\ (pcall = "diagram" /\ ~ChecksHold(data[1], reasons_obj))
          => (exc = "ValueError" /\ ret = NoSvg /\ file = NoSvg /\ inst = NoInstance)
    /\ (inst = NoInstance) => (~handed /\ ~generator /\ svg = NoSvg)

\* C4 witness: generate_prisma_diagram was called with format "svg" and an
\* output path on a record that violates a check, and returned None.
C4_Witness ==
    /\ pcall = "diagram" /\ ~ChecksHold(data[1], reasons_obj)
    /\ dcall[1].fmt = "svg" /\ dcall[1].path # <<>>
    /\ ret = NoSvg /\ file = NoSvg

\* C5: validate rejects every record with a negative count, be it an int field
\* or a value of the exclusion_reasons mapping.
C5_NegativeCountsRejected ==
    (pcall = "construct"
       /\ (NegativeFields(data[1]) # {} \/ \E l \in DOMAIN reasons_obj : reasons_obj[l] < 0))
      => (exc = "ValueError" /\ errors # <<>>)

\* C6: once constructed, the instance satisfies every validation invariant in
\* every later state, so generate_svg renders only a consistent record.
C6_InstanceStaysValid ==
    inst # NoInstance => ChecksHold(inst[1], reasons_obj)

(***************************************************************************)
(* The aggregator's claims.                                                *)
(***************************************************************************)
\* every study carries n_intervention, mean_intervention and mean_control
AllFieldsPresent(ed) ==
    \A i \in 1..Len(ed) :
        /\ ed[i].n_intervention # <<>>
        /\ ed[i].mean_intervention # <<>>
        /\ ed[i].mean_control # <<>>

\* every study has both means, and they are equal: every effect is 0
AllEffectsZero(ed) ==
    \A i \in 1..Len(ed) :
        /\ ed[i].mean_intervention # <<>>
        /\ ed[i].mean_control = ed[i].mean_intervention

\* the total sample size of a request, an absent n counting 0
TotalSampleSize ==
    IF endpoint = "run_meta_analysis"
    THEN SumSeq([i \in 1..Len(extraction_data) |->
                   IF extraction_data[i].n_intervention = <<>> THEN 0
                   ELSE extraction_data[i].n_intervention[1]])
    ELSE SumSeq([i \in 1..Len(extraction_data) |-> extraction_data[i].n])

\* the aggregator ran: run_meta_analysis always, run_r_script from 2 rows on
AggregatorRan ==
    \/ endpoint = "run_meta_analysis"
    \/ endpoint = "meta_analysis" /\ Len(extraction_data) >= 2

\* C7: the iSquared an aggregator computes lies in [0, 100] for every input;
\* when every per-study effect is 0 it is 0, and no division error is raised.
C7_ISquaredInRange ==
    /\ metrics # NoMetrics =>
          /\ 0 <= metrics[1].i2[1]
          /\ metrics[1].i2[1] <= 100 * metrics[1].i2[2]
    /\ (endpoint = "run_meta_analysis" /\ extraction_data # <<>>
          /\ AllEffectsZero(extraction_data)) =>
          /\ metrics # NoMetrics
          /\ metrics[1].i2[1] = 0
          /\ response.error # "ZeroDivisionError"

\* C7 witness: two studies with non-zero, equal means (effects 0, 0) were
\* aggregated to iSquared 0 in a successful response.
C7_Witness ==
    /\ endpoint = "run_meta_analysis" /\ Len(extraction_data) >= 2
    /\ AllEffectsZero(extraction_data)
    /\ \A i \in 1..Len(extraction_data) : extraction_data[i].mean_control # <<0>>
    /\ metrics[1].i2[1] = 0 /\ response.status = 200

\* C8: the heterogeneity class is decided by iSquared alone: Low below 25,
\* Moderate from 25 to below 75, High from 75 on.
C8_ClassByThresholds ==
    metrics # NoMetrics =>
      metrics[1].heterogeneity =
        (IF metrics[1].i2[1] < 25 * metrics[1].i2[2] THEN "Low"
         ELSE IF metrics[1].i2[1] < 75 * metrics[1].i2[2] THEN "Moderate"
         ELSE "High")

\* C8 witness: a response reports iSquared exactly 25.00 as Moderate.
C8_Witness ==
    /\ endpoint = "run_meta_analysis" /\ response.status = 200
    /\ metrics # NoMetrics
    /\ metrics[1].i2 = <<2500, 100>>
    /\ metrics[1].heterogeneity = "Moderate"

\* C9: for a non-empty list whose studies all carry n and both means, with a
\* positive total n, combinedEffect is the weighted mean sum(e_i * n_i) /
\* sum(n_i) over all supplied studies, rounded to two decimals.
C9_WeightedMeanOverAll ==
    (endpoint = "run_meta_analysis" /\ extraction_data # <<>>
       /\ AllFieldsPresent(extraction_data) /\ TotalSampleSize > 0)
      => LET num == SumSeq([i \in 1..Len(extraction_data) |->
                         (extraction_data[i].mean_intervention[1]
                            - extraction_data[i].mean_control[1])
                         * extraction_data[i].n_intervention[1]])
         IN /\ 2 * (combined_effect[1] * TotalSampleSize - num) <= TotalSampleSize
            /\ 2 * (num - combined_effect[1] * TotalSampleSize) <= TotalSampleSize

C11_DuplicationInvariant ==
    (prev # <<>> /\ prev[1].extraction_data # <<>>
       /\ extraction_data = prev[1].extraction_data \o prev[1].extraction_data)
      => combined_effect = prev[1].combined_effect

\* the positions of the studies of the request that carry both means
BothMeansPresent ==
    {i \in 1..Len(extraction_data) :
        /\ extraction_data[i].mean_intervention # <<>>
        /\ extraction_data[i].mean_control # <<>>}

\* C12: when fewer than 2 studies of the request have both means present, the
\* aggregator computes iSquared 0 and heterogeneity Low; when exactly one
\* study is complete (n and both means), combinedEffect is that study's effect.
C12_FewerThanTwoComplete ==
    endpoint = "run_meta_analysis" =>
      /\ Cardinality(BothMeansPresent) < 2 =>
            /\ metrics # NoMetrics
            /\ metrics[1].i2[1] = 0
            /\ metrics[1].heterogeneity = "Low"
      /\ \A i \in BothMeansPresent :
            (/\ extraction_data[i].n_intervention # <<>>
             /\ \A j \in BothMeansPresent \ {i} : extraction_data[j].n_intervention = <<>>)
              => combined_effect = <<extraction_data[i].mean_intervention[1]
                                       - extraction_data[i].mean_control[1]>>

(***************************************************************************)
(* The renderers.                                                          *)
(***************************************************************************)
RendererRan == render # <<>>
Out == render[1].out
Returned == RendererRan /\ Out.raised = "none"

\* C13: every renderer returns an image for every list of study records,
\* whatever a record lacks (means, sample size, title); none raises.
C13_RenderingTotal ==
    RendererRan => Out.raised = "none"

\* C14: a renderer given an empty list raises nothing and returns a
\* placeholder image of exactly 10 synthetic studies, one row or point each,
\* named Study 1 to Study 10 wherever the renderer draws names.
C14_EmptyListPlaceholder ==
    (RendererRan /\ render[1].ed = <<>>) =>
        /\ Out.raised = "none"
        /\ Len(Out.rows) = 10
        /\ \A i \in 1..Len(Out.rows) :
              Out.rows[i].name \in {<<>>, [study |-> i, len |-> 0]}
        /\ render[1].fn \in {"forest_legend", "funnel_legend", "forest", "funnel"} =>
              \A i \in 1..10 : Out.rows[i].name = [study |-> i, len |-> 0]

C14_Witness ==
    /\ RendererRan /\ render[1].ed = <<>> /\ render[1].fn = "funnel"
    /\ Out.raised = "none" /\ Len(Out.rows) = 10
    /\ Out.rows[10].name = [study |-> 10, len |-> 0]

\* the image another renderer gives for the list of the call made
OutOf(fn) == RenderOut(fn, render[1].ed, render[1].ce, render[1].rnd, render[1].up)
GraphOf(fn) == IF fn = "forest_legend" THEN "forest_graph" ELSE "funnel_graph"

\* C15: the legend and the graph of the same plot give the study at position
\* i (from 0) the same color, entry (i mod 10) of the 10-color palette, so
\* that studies 10 positions apart share a color.
C15_LegendAndGraphColors ==
    (Returned /\ render[1].fn \in {"forest_legend", "funnel_legend"}
       /\ OutOf(GraphOf(render[1].fn)).raised = "none") =>
        LET graph == OutOf(GraphOf(render[1].fn))
        IN /\ Len(graph.rows) = Len(Out.rows)
           /\ \A i \in 0..(Len(Out.rows) - 1) :
                 /\ Out.rows[i + 1].color = graph.rows[i + 1].color
                 /\ Out.rows[i + 1].color = colors[(i % 10) + 1]
                 /\ i >= 10 => Out.rows[i + 1].color = Out.rows[i - 9].color

C15_Witness ==
    /\ Returned /\ render[1].fn = "funnel_legend" /\ Len(render[1].ed) = 12
    /\ OutOf("funnel_graph").raised = "none"
    /\ Out.rows[12].color = "#4CAF50"
    /\ OutOf("funnel_graph").rows[12].color = "#4CAF50"

\* the first m studies of the list of the call made
Prefix(m) == SubSeq(render[1].ed, 1, m)
OutOfPrefix(m) ==
    RenderOut(render[1].fn, Prefix(m), render[1].ce, render[1].rnd, render[1].up)

\* C16 as stated: for every 0 <= m <= n a renderer's image of the first m
\* studies of a list is no wider and no taller than its image of all n.
C16_SizeMonotone ==
    Returned =>
        \A m \in 0..Len(render[1].ed) :
            OutOfPrefix(m).raised = "none" =>
                /\ OutOfPrefix(m).width <= Out.width
                /\ OutOfPrefix(m).height <= Out.height

\* C16 (amended): from one study on, the image of the first m studies is no
\* wider and no taller than the image of all n; the image of no study has
\* the size of an image of 10 studies.
C16_SizeMonotoneFromOne ==
    Returned =>
        /\ \A m \in 1..Len(render[1].ed) :
              OutOfPrefix(m).raised = "none" =>
                  /\ OutOfPrefix(m).width <= Out.width
                  /\ OutOfPrefix(m).height <= Out.height
        /\ \A big \in {ed \in RenderLists : Len(ed) = 10} :
              LET ten == RenderOut(render[1].fn, big, render[1].ce, NoDraw, FALSE)
                  none == OutOfPrefix(0)
              IN ten.raised = "none" =>
                    none.width = ten.width /\ none.height = ten.height

C16_Witness ==
    /\ Returned /\ render[1].fn = "forest_legend" /\ Len(render[1].ed) = 12
    /\ Out.height = 500
    /\ OutOfPrefix(11).height = 465
    /\ OutOfPrefix(0).height = 430

\* the combinedEffect run_meta_analysis computes for the list of the call made
AggregatorEffects == {CombinedEffect(render[1].ed, up) : up \in BOOLEAN}

\* C17: for every non-empty list, the combined row of the forest plot is
\* labelled with, and positioned on the plot's scale at, the sample-size
\* weighted combinedEffect that the aggregator computed and passed in.
C17_CombinedRowIsAggregators ==
    (/\ Returned /\ render[1].fn \in {"forest_graph", "forest"}
     /\ render[1].ed # <<>>
     /\ render[1].ce \in AggregatorEffects) =>
        /\ Out.combined = render[1].ce
        /\ Out.combined_x
             = ForestX(IF render[1].fn = "forest" THEN 790 ELSE 550, render[1].ce)

FunnelRan == RendererRan /\ render[1].fn \in {"funnel_graph", "funnel"}

\* 1/sqrt(n) in thousandths, for the sample sizes of the studies rendered
InvSqrt(n) == CASE n = 1 -> 1000 [] n = 3 -> 577

\* C18 as stated: a plotted study whose sample size n is known has the
\* standard error 1/sqrt(n); the ramp by index is for unknown sizes only.
C18_SeFromSampleSize ==
    (FunnelRan /\ Returned /\ render[1].ed # <<>>) =>
        \A i \in 1..Len(render[1].ed) :
            IF render[1].ed[i].n_intervention # <<>>
            THEN Out.rows[i].se = InvSqrt(render[1].ed[i].n_intervention[1])
            ELSE Out.rows[i].se = 100 + 50 * i

\* C18 (amended): the funnel renderers never read the sample size: when every
\* study of a non-empty list has both means non-zero, the study at position i
\* is plotted with the standard error 0.1 + 0.05 i whatever its n; otherwise
\* the renderer raises.
C18_SeFromPosition ==
    (FunnelRan /\ render[1].ed # <<>>) =>
        IF \A i \in 1..Len(render[1].ed) : HasMeans(render[1].ed[i])
        THEN \/ /\ Out.raised = "none"
                /\ \A i \in 1..Len(render[1].ed) : Out.rows[i].se = 100 + 50 * i
             \/ /\ Out.raised = "TypeError"
                /\ render[1].fn = "funnel"
                /\ \E i \in 1..Len(render[1].ed) : TitleIsNone(render[1].ed[i])
        ELSE Out.raised \in {"UnboundLocalError", "TypeError"}

C18_Witness ==
    /\ FunnelRan /\ Returned /\ render[1].ed = <<study_b, study_a>>
    /\ Out.rows[1].se = 150 /\ Out.rows[2].se = 200

\* C19: the standard-error axis of the funnel plot is inverted: of two
\* plotted studies the one with the smaller standard error is drawn nearer
\* the top, that is with the smaller y.
C19_SmallerSeNearerTop ==
    (FunnelRan /\ Returned) =>
        \A i, j \in 1..Len(Out.rows) :
            Out.rows[i].se < Out.rows[j].se => Out.rows[i].y < Out.rows[j].y

(***************************************************************************)
(* Two requests with the same list.                                        *)
(***************************************************************************)
SameListAgain ==
    /\ prev # <<>> /\ endpoint = "run_meta_analysis"
    /\ extraction_data = prev[1].extraction_data
SameResults ==
    /\ combined_effect = prev[1].combined_effect
    /\ metrics = prev[1].metrics
    /\ response = prev[1].response
    /\ plots = prev[1].plots

Base64Value(c) == CHOOSE v \in 0..63 : Base64Alphabet[v + 1] = c

RECURSIVE b64decode(_)
b64decode(t) ==
    IF Len(t) < 4 THEN <<>>
    ELSE LET v1 == Base64Value(t[1])
             v2 == Base64Value(t[2])
         IN IF t[3] = "=" THEN <<v1 * 4 + v2 \div 16>>
            ELSE LET v3 == Base64Value(t[3])
                 IN IF t[4] = "="
                    THEN <<v1 * 4 + v2 \div 16, (v2 % 16) * 16 + v3 \div 4>>
                    ELSE <<v1 * 4 + v2 \div 16, (v2 % 16) * 16 + v3 \div 4,
                           (v3 % 4) * 64 + Base64Value(t[4])>>
                         \o b64decode(SubSeq(t, 5, Len(t)))

\* bytes.decode('utf-8'); -1 stands for a byte sequence that is not UTF-8
RECURSIVE DecodeUtf8(_)
DecodeUtf8(b) ==
    IF b = <<>> THEN <<>>
    ELSE LET n == IF b[1] < 128 THEN 1
                  ELSE IF b[1] \in 192..223 THEN 2
                  ELSE IF b[1] \in 224..239 THEN 3
                  ELSE IF b[1] \in 240..247 THEN 4 ELSE 0
         IN IF n = 0 \/ Len(b) < n \/ \E k \in 2..n : b[k] \notin 128..191
            THEN <<-1>>
            ELSE <<CASE n = 1 -> b[1]
                     [] n = 2 -> (b[1] - 192) * 64 + (b[2] - 128)
                     [] n = 3 -> (b[1] - 224) * 4096 + (b[2] - 128) * 64 + (b[3] - 128)
                     [] n = 4 -> (b[1] - 240) * 262144 + (b[2] - 128) * 4096
                                   + (b[3] - 128) * 64 + (b[4] - 128)>>
                 \o DecodeUtf8(SubSeq(b, n + 1, Len(b)))

\* C21: every image URL produced is "data:image/svg+xml;base64," followed by
\* a payload whose base64 decoding is exactly the UTF-8 form of the SVG text
\* it was made from.
C21_DataUriRoundTrip ==
    (plot_url # <<>> /\ plot_url[1].uri.raised = "none") =>
        /\ plot_url[1].uri.prefix = "data:image/svg+xml;base64,"
        /\ Len(plot_url[1].uri.b64) % 4 = 0
        /\ \A i \in 1..Len(plot_url[1].uri.b64) :
              \/ \E v \in 0..63 : plot_url[1].uri.b64[i] = Base64Alphabet[v + 1]
              \/ plot_url[1].uri.b64[i] = "=" /\ i > Len(plot_url[1].uri.b64) - 2
        /\ DecodeUtf8(b64decode(plot_url[1].uri.b64)) = plot_url[1].svg_content

C21_Witness ==
    /\ plot_url # <<>> /\ plot_url[1].svg_content = <<60, 178>>
    /\ plot_url[1].uri.raised = "none"
    /\ plot_url[1].uri.b64 = <<"P", "M", "K", "y">>

(***************************************************************************)
(* The PRISMA diagram's layout.                                            *)
(***************************************************************************)
\* C22: generate_svg emits exactly four boxes, Identification, Screening,
\* Eligibility, Inclusion in this order, of one width and height and one
\* vertical spacing, and exactly three arrows, arrow k running down from the
\* bottom edge of box k to the top edge of box k + 1; the boxes do not
\* overlap and lie inside a canvas of the same size for every record.
C22_FixedLayout ==
    svg # NoSvg =>
        LET boxes == svg[1].boxes
            arrows == svg[1].arrows
        IN /\ Len(boxes) = 4 /\ Len(arrows) = 3
           /\ [k \in 1..4 |-> boxes[k].section]
                = <<"identification", "screening", "eligibility", "inclusion">>
           /\ \A k \in 1..4 :
                 /\ boxes[k].width = boxes[1].width /\ boxes[k].height = boxes[1].height
                 /\ boxes[k].width > 0 /\ boxes[k].height > 0
                 /\ boxes[k].x >= 0 /\ boxes[k].x + boxes[k].width <= svg[1].width
                 /\ boxes[k].y >= 0 /\ boxes[k].y + boxes[k].height <= svg[1].height
           /\ \A k \in 1..3 :
                 /\ boxes[k + 1].y - (boxes[k].y + boxes[k].height)
                      = boxes[2].y - (boxes[1].y + boxes[1].height)
                 /\ boxes[k].y + boxes[k].height < boxes[k + 1].y
                 /\ arrows[k].y1 = boxes[k].y + boxes[k].height
                 /\ arrows[k].y2 = boxes[k + 1].y
                 /\ arrows[k].y1 < arrows[k].y2
                 /\ arrows[k].x1 = arrows[k].x2
                 /\ arrows[k].points[1] = <<arrows[k].x2, arrows[k].y2>>
           /\ svg[1].width = 750 /\ svg[1].height = 1020

C22_Witness ==
    /\ svg # NoSvg /\ pcall = "generate_svg"
    /\ svg[1].identification[3] > 0
    /\ svg[1].boxes[4].y = 860 /\ svg[1].arrows[3].y1 = 700 /\ svg[1].arrows[3].y2 = 860

(***************************************************************************)
(* The aggregator's pValue and qStatistic.                                 *)
(***************************************************************************)
\* C23: for a non-empty list the pValue is 0.05 when iSquared > 50 and 0.001
\* otherwise; every pValue reported, that of an empty list included, lies
\* strictly between 0 and 1.
C23_PValueStep ==
    endpoint = "run_meta_analysis" =>
        /\ metrics # NoMetrics
        /\ RLess(<<0, 1>>, metrics[1].pValue) /\ RLess(metrics[1].pValue, <<1, 1>>)
        /\ extraction_data # <<>> =>
              IF metrics[1].i2[1] > 50 * metrics[1].i2[2]
              THEN metrics[1].pValue[1] * 100 = 5 * metrics[1].pValue[2]
              ELSE metrics[1].pValue[1] * 1000 = metrics[1].pValue[2]

C23_Witness ==
    /\ endpoint = "run_meta_analysis" /\ response.status = 200
    /\ Len(extraction_data) = 2
    /\ metrics[1].i2 = <<6667, 100>>
    /\ metrics[1].pValue = <<5, 100>>

\* the studies of the request whose two means are present
MeansPresent ==
    {i \in 1..Len(extraction_data) :
        /\ extraction_data[i].mean_intervention # <<>>
        /\ extraction_data[i].mean_control # <<>>}

\* the studies of the request whose two means are present and not 0
MeansNonZero ==
    {i \in MeansPresent :
        /\ extraction_data[i].mean_intervention # <<0>>
        /\ extraction_data[i].mean_control # <<0>>}

\* C24 as stated: for a non-empty list qStatistic = iSquared * count / 100,
\* count the number of studies with both means present, and it is never
\* negative.
C24_QExact ==
    (endpoint = "run_meta_analysis" /\ extraction_data # <<>>) =>
        /\ metrics # NoMetrics
        /\ metrics[1].q[1] >= 0
        /\ metrics[1].q[1] * 100 = metrics[1].i2[1] * Cardinality(MeansPresent)

\* C24 (amended): for a non-empty list qStatistic is iSquared * count / 100
\* rounded to the nearest hundredth, count being the number of studies whose
\* effects entered iSquared (both means present and not 0), and it is never
\* negative.
C24_QRounded ==
    (endpoint = "run_meta_analysis" /\ extraction_data # <<>>) =>
        /\ metrics # NoMetrics
        /\ metrics[1].q[2] = 100 /\ metrics[1].i2[2] = 100
        /\ metrics[1].q[1] >= 0
        /\ metrics[1].q[1] * 100 - metrics[1].i2[1] * Cardinality(MeansNonZero) <= 50
        /\ metrics[1].i2[1] * Cardinality(MeansNonZero) - metrics[1].q[1] * 100 <= 50

C24_Witness ==
    /\ endpoint = "run_meta_analysis" /\ response.status = 200
    /\ Cardinality(MeansNonZero) = 2
    /\ metrics[1].i2 = <<6667, 100>>
    /\ metrics[1].q = <<133, 100>>

(***************************************************************************)
(* The forest plot's scale.                                                *)
(***************************************************************************)
ForestRan == RendererRan /\ render[1].fn \in {"forest_graph", "forest"}

\* C25: the forest plot has one fixed linear horizontal scale: an effect of
\* 1.0 lies on the no-effect reference line and every effect unit is the
\* same offset, each row has left_x <= center_x <= right_x, and the x-axis
\* tick labelled v lies where an effect of v is plotted.
C25_OneLinearScale ==
    (ForestRan /\ Returned) =>
        /\ \A i \in 1..Len(Out.rows) :
              /\ Out.rows[i].center_x - Out.reference_x = 12 * (Out.rows[i].effect - 100)
              /\ Out.rows[i].left_x - Out.reference_x = 12 * (Out.rows[i].ci_lower - 100)
              /\ Out.rows[i].right_x - Out.reference_x = 12 * (Out.rows[i].ci_upper - 100)
              /\ Out.rows[i].left_x <= Out.rows[i].center_x
              /\ Out.rows[i].center_x <= Out.rows[i].right_x
        /\ Out.combined_x - Out.reference_x = 12 * (Out.combined - 100)
        /\ [k \in 1..Len(Out.ticks) |-> Out.ticks[k].label] = <<50, 100, 150, 200, 250, 300>>
        /\ \A k \in 1..Len(Out.ticks) :
              Out.ticks[k].x - Out.reference_x = 12 * (Out.ticks[k].label - 100)

(***************************************************************************)
(* The effect a study is drawn with.                                       *)
(***************************************************************************)
PresentMeans(s) == s.mean_intervention # <<>> /\ s.mean_control # <<>>
Difference(s) == s.mean_intervention[1] - s.mean_control[1]

\* C26: in the forest plot a study with both means present has the effect
\* mean_intervention - mean_control and the interval effect +/- 1.96 * 0.5;
\* a study without them has the effect 1.0 + 0.1 i and the interval +/- 0.3,
\* i its position from 1, so strictly increasing in i.
C26_ForestRowValues ==
    (ForestRan /\ Returned /\ render[1].ed # <<>>) =>
        /\ Len(Out.rows) = Len(render[1].ed)
        /\ \A i \in 1..Len(render[1].ed) :
              IF PresentMeans(render[1].ed[i])
              THEN /\ Out.rows[i].effect = Difference(render[1].ed[i])
                   /\ Out.rows[i].ci_lower = Out.rows[i].effect - 98
                   /\ Out.rows[i].ci_upper = Out.rows[i].effect + 98
              ELSE /\ Out.rows[i].effect = 100 + 10 * i
                   /\ Out.rows[i].ci_lower = Out.rows[i].effect - 30
                   /\ Out.rows[i].ci_upper = Out.rows[i].effect + 30
        /\ \A i, j \in 1..Len(render[1].ed) :
              (/\ i < j /\ ~PresentMeans(render[1].ed[i])
               /\ ~PresentMeans(render[1].ed[j])) =>
                  Out.rows[i].effect < Out.rows[j].effect

\* the effects of the studies of the request whose two means are present
PresentEffects ==
    LET c == SelectSeq(extraction_data, PresentMeans)
    IN [i \in 1..Len(c) |-> Difference(c[i])]

\* the studies that have a weight and both means, with the sums over them
Weighted ==
    {i \in MeansPresent : extraction_data[i].n_intervention \notin {<<>>, <<0>>}}
WeightedSum ==
    SumSeq([i \in 1..Len(extraction_data) |->
              IF i \in Weighted
              THEN Difference(extraction_data[i]) * extraction_data[i].n_intervention[1]
              ELSE 0])
WeightSum ==
    SumSeq([i \in 1..Len(extraction_data) |->
              IF i \in Weighted THEN extraction_data[i].n_intervention[1] ELSE 0])

\* C27: a study one of whose means is present with the value 0 is treated as
\* any study with both means: its effect mean_intervention - mean_control
\* enters combinedEffect and the effects of iSquared, and the forest and the
\* funnel plot draw that effect.
C27_ZeroIsAMean ==
    (endpoint = "run_meta_analysis" /\ MeansPresent # MeansNonZero) =>
        /\ WeightSum > 0 =>
              /\ 2 * (combined_effect[1] * WeightSum - WeightedSum) <= WeightSum
              /\ 2 * (WeightedSum - combined_effect[1] * WeightSum) <= WeightSum
        /\ metrics # NoMetrics
        /\ metrics[1].i2[1] \in {ISquared(PresentEffects, up) : up \in BOOLEAN}
        /\ response.status = 200
        /\ plots # <<>>
        /\ \A i \in MeansPresent :
              /\ plots[1].forestPlot.rows[i].effect = Difference(extraction_data[i])
              /\ plots[1].funnelPlot.rows[i].effect = Difference(extraction_data[i])

\* C28: for every list of studies with both means present and effects within
\* the axis range [0.5, 2.5], of whatever length, every point of the funnel
\* plot lies inside the declared canvas: 0 <= cx <= width and 0 <= cy <= 750.
C28_FunnelPointsOnCanvas ==
    (/\ FunnelRan /\ Returned /\ render[1].ed # <<>>
     /\ \A i \in 1..Len(render[1].ed) :
           /\ PresentMeans(render[1].ed[i])
           /\ Difference(render[1].ed[i]) \in 50..250) =>
        \A i \in 1..Len(Out.rows) :
            /\ 0 <= Out.rows[i].x /\ Out.rows[i].x <= 10 * Out.width
            /\ 0 <= Out.rows[i].y /\ Out.rows[i].y <= 10 * Out.height

(***************************************************************************)
(* generate_prisma_diagram.                                                *)
(***************************************************************************)
DiagramRan == pcall = "diagram"

\* the record the constructor is given, and whether it constructs
Given ==
    IF dcall[1].keys = "no_studies_meta_analysis"
    THEN [data[1] EXCEPT !.studies_meta_analysis = 0] ELSE data[1]
Constructs ==
    /\ dcall[1].keys \in {"all", "no_studies_meta_analysis"}
    /\ ChecksHold(Given, reasons_obj)

\* C29: generate_prisma_diagram returns SVG text exactly when the dict
\* constructs a PRISMAData and the format is "svg" in any letter case, and
\* None otherwise (validation failure, missing or unknown key, unsupported
\* format); it writes a file only when it returns SVG text and a path is
\* given, and a failed write leaves the returned text as it is.
C29_DiagramResult ==
    DiagramRan =>
        /\ ret # NoSvg <=> (Constructs /\ dcall[1].fmt \in {"svg", "SVG", "Svg"})
        /\ ret # NoSvg => ret[1].inclusion = <<Given.studies_qualitative_synthesis,
                                                Given.studies_meta_analysis>>
        /\ file # NoSvg => (ret # NoSvg /\ dcall[1].path # <<>> /\ file = ret)
        /\ (ret # NoSvg /\ dcall[1].path = <<"prisma_diagram.svg">>) =>
              (file # NoSvg <=> dcall[1].writable)
        /\ inst = NoInstance /\ svg = NoSvg

C29_Witness ==
    /\ DiagramRan /\ dcall[1].fmt = "Svg" /\ dcall[1].keys = "no_studies_meta_analysis"
    /\ dcall[1].path = <<"prisma_diagram.svg">> /\ ~dcall[1].writable
    /\ data[1] = example_data
    /\ ret # NoSvg /\ ret[1].inclusion = <<37, 0>> /\ file = NoSvg

\* the databases a search request selected, and what each of them contributes:
\* the list it returned, nothing when it raised or was not selected
Selected == {p \in ProviderNames : search_call[1].strategies[p]}
Contribution(p) ==
    IF p \in Selected /\ ~ search_call[1].outcomes[p].raised
    THEN search_call[1].outcomes[p].articles ELSE <<>>

\* C30: a search request with no database selected is rejected with HTTP 400
\* and no provider is called; otherwise exactly the selected providers are
\* called, a provider that raises contributes nothing, and the response is a
\* success whose articles are the providers' lists joined in the order PubMed,
\* Semantic Scholar, ArXiv, Crossref, duplicates kept, total_count being their
\* number.
C30_SearchAggregation ==
    search_call # <<>> =>
        LET r == search_call[1].response
        IN  IF Selected = {}
            THEN r.status = 400 /\ r.called = {}
            ELSE /\ r.called = Selected
                 /\ r.status = 200 /\ r.success
                 /\ r.articles = Contribution("pubmed") \o Contribution("semantic")
                                 \o Contribution("arxiv") \o Contribution("crossref")
                 /\ r.total_count = Len(r.articles)

=============================================================================
